---- MODULE Spec2Model ----
(***************************************************************************)
(* A model of streamlit_app.py, the LinkedIn analytics dashboard.          *)
(*                                                                         *)
(* Conventions.                                                            *)
(*  - A text is a sequence of one-character strings.                       *)
(*  - A cell is a record [k, s, n]: k is "nan" (pandas NaN / NaT), "str"   *)
(*    (s is its text), "num" (n is its value) or "date" (n is its day of   *)
(*    January 2024); the field not in use is << >> or 0.                   *)
(*  - Numbers are integers.  In the two rate columns one unit stands for   *)
(*    0.01, so the rate 0.1 is the cell value 10.  Means are exact         *)
(*    rationals [num, den]; floating-point rounding is not modelled.       *)
(***************************************************************************)
EXTENDS Integers, Sequences, FiniteSets, TLC

VARIABLES
    text,           \* extract_first_sentence: its argument
    summary,        \* extract_first_sentence: its return value (None before the call)
    uploaded_file,  \* the file held by st.file_uploader (None when none is chosen)
    df,             \* the table returned by load_and_process_data (None when none)
    errors,         \* the st.error messages emitted by the last load
    call,           \* the last function applied to df
    result,         \* what that call returned or raised
    widgets,        \* the sidebar / search widget values of the session
    view,           \* main's df after the sidebar filters, with what the filters offered
    page            \* what the last run of main() drew

vars == << text, summary, uploaded_file, df, errors, call, result, widgets, view, page >>

None == [k |-> "none"]
NaN == [k |-> "nan", s |-> << >>, n |-> 0]
StrCell(t) == [k |-> "str", s |-> t, n |-> 0]
NumCell(i) == [k |-> "num", s |-> << >>, n |-> i]
DateCell(d) == [k |-> "date", s |-> << >>, n |-> d]

\* pd.isna / pd.notna on a scalar
IsNa(c) == c.k = "nan"

(***************************************************************************)
(* Text primitives                                                         *)
(***************************************************************************)
\* characters matched by \s and removed by str.strip()
Whitespace == {" ", "\t"}
\* the character class [.!?]
SentenceEnd == {".", "!", "?"}

Digits == << "0", "1", "2", "3", "4", "5", "6", "7", "8", "9" >>

\* str() of a non-negative integer
RECURSIVE IntToChars(_)
IntToChars(n) ==
    IF n < 10 THEN << Digits[n + 1] >>
    ELSE IntToChars(n \div 10) \o << Digits[(n % 10) + 1] >>

\* str(text) for a cell that is not NaN
Str(c) == IF c.k = "str" THEN c.s ELSE IntToChars(c.n)

\* str.lstrip(): the text from its first non-whitespace character on
LStrip(s) ==
    LET kept == { i \in 1..Len(s) : s[i] \notin Whitespace }
    IN  IF kept = {} THEN << >>
        ELSE SubSeq(s, CHOOSE i \in kept : \A j \in kept : i <= j, Len(s))

\* str.rstrip(): the text up to its last non-whitespace character
RStrip(s) ==
    LET kept == { i \in 1..Len(s) : s[i] \notin Whitespace }
    IN  IF kept = {} THEN << >>
        ELSE SubSeq(s, 1, CHOOSE i \in kept : \A j \in kept : i >= j)

\* a mutation of Strip: nothing is stripped
StripNothing(s) == s

\* str.strip()
Strip(s) == RStrip(LStrip(s))

\* the end of the \s+ run that starts at position i: the first position after it
WsEnd(s, i) ==
    CHOOSE j \in i..(Len(s) + 1) :
        /\ \A k \in i..(j - 1) : s[k] \in Whitespace
        /\ (j = Len(s) + 1 \/ s[j] \notin Whitespace)

\* the positions where [.!?]\s+ matches: a sentence end followed by whitespace
MatchStarts(s) ==
    { m \in 1..(Len(s) - 1) : s[m] \in SentenceEnd /\ s[m + 1] \in Whitespace }

\* re.split(r'[.!?]\s+', s) from position p on: the leftmost match at or after p
\* ends the current piece, and the scan resumes after the match
RECURSIVE SplitFrom(_, _)
SplitFrom(s, p) ==
    LET ms == { m \in MatchStarts(s) : m >= p }
    IN  IF ms = {} THEN << SubSeq(s, p, Len(s)) >>
        ELSE LET m == CHOOSE x \in ms : \A y \in ms : x <= y
             IN  << SubSeq(s, p, m - 1) >> \o SplitFrom(s, WsEnd(s, m + 1))

ReSplit(s) == SplitFrom(s, 1)

(***************************************************************************)
(* extract_first_sentence                                                  *)
(***************************************************************************)
ShortSentence == 20
MaxSummary == 100
KeptChars == 97
Ellipsis == << ".", ".", "." >>

\* a mutation of Truncate: cuts at the limit and then appends the ellipsis
TruncateLate(s) ==
    IF Len(s) > MaxSummary THEN SubSeq(s, 1, MaxSummary) \o Ellipsis ELSE s

\* "Limit length for display"
Truncate(s) ==
    IF Len(s) > MaxSummary THEN SubSeq(s, 1, KeptChars) \o Ellipsis ELSE s

\* the summary before the length limit: the first candidate, or the first two
FirstCandidates(t) ==
    LET sentences == ReSplit(Str(t))
        first_sentence == Strip(sentences[1])
    IN  IF Len(first_sentence) < ShortSentence /\ Len(sentences) > 1
        THEN sentences[1] \o << ".", " " >> \o sentences[2]
        ELSE first_sentence

extract_first_sentence(t) ==
    IF IsNa(t) \/ t = StrCell(<< >>) THEN << >>
    ELSE Truncate(FirstCandidates(t))

(***************************************************************************)
(* Column names and tables                                                 *)
(*                                                                         *)
(* A table (DataFrame) is [columns |-> sequence of names, data |-> sequence *)
(* of rows], a row being the sequence of its cells in column order.         *)
(***************************************************************************)
POST_TITLE == << "p", "o", "s", "t", " ", "t", "i", "t", "l", "e" >>
FIRST_SENTENCE == << "p", "o", "s", "t", " ", "t", "i", "t", "l", "e", " ", "(", "f", "i", "r", "s", "t", " ", "s", "e", "n", "t", "e", "n", "c", "e", ")" >>
CREATED_DATE == << "c", "r", "e", "a", "t", "e", "d", " ", "d", "a", "t", "e" >>
ENGAGEMENT_RATE == << "e", "n", "g", "a", "g", "e", "m", "e", "n", "t", " ", "r", "a", "t", "e" >>
CTR == << "c", "l", "i", "c", "k", " ", "t", "h", "r", "o", "u", "g", "h", " ", "r", "a", "t", "e", " ", "(", "c", "t", "r", ")" >>
IMPRESSIONS == << "i", "m", "p", "r", "e", "s", "s", "i", "o", "n", "s" >>
POST_TYPE == << "p", "o", "s", "t", " ", "t", "y", "p", "e" >>

UpperCase == << "A", "B", "C", "D", "E", "F", "G", "H", "I", "J", "K", "L", "M", "N", "O", "P", "Q", "R", "S", "T", "U", "V", "W", "X", "Y", "Z" >>
LowerCase == << "a", "b", "c", "d", "e", "f", "g", "h", "i", "j", "k", "l", "m", "n", "o", "p", "q", "r", "s", "t", "u", "v", "w", "x", "y", "z" >>

\* str.lower() of one character
LowerChar(c) ==
    IF \E i \in 1..Len(UpperCase) : UpperCase[i] = c
    THEN LowerCase[CHOOSE i \in 1..Len(UpperCase) : UpperCase[i] = c]
    ELSE c

\* str.lower()
Lower(s) == [i \in 1..Len(s) |-> LowerChar(s[i])]

\* str(col).lower().strip()
NormalizeName(col) == Strip(Lower(col))

HasCol(d, name) == \E i \in 1..Len(d.columns) : d.columns[i] = name

\* the name labels more than one column: d[name] is then a DataFrame, not a Series
DupCol(d, name) == Cardinality({ i \in 1..Len(d.columns) : d.columns[i] = name }) > 1

ColIndex(d, name) == CHOOSE i \in 1..Len(d.columns) : d.columns[i] = name

\* d[name]: the cells of a column, in row order
Column(d, name) == [r \in 1..Len(d.data) |-> d.data[r][ColIndex(d, name)]]

\* d[name] = cells: replaces the column, or appends it when it is new
SetColumn(d, name, cells) ==
    IF HasCol(d, name)
    THEN [d EXCEPT !.data =
            [r \in 1..Len(d.data) |-> [d.data[r] EXCEPT ![ColIndex(d, name)] = cells[r]]]]
    ELSE [columns |-> Append(d.columns, name),
          data |-> [r \in 1..Len(d.data) |-> Append(d.data[r], cells[r])]]

\* d[mask]: the rows whose mask is TRUE, in their order
RECURSIVE KeepRows(_, _)
KeepRows(rows, mask) ==
    IF rows = << >> THEN << >>
    ELSE (IF mask[1] THEN << Head(rows) >> ELSE << >>) \o KeepRows(Tail(rows), Tail(mask))

FilterRows(d, mask) == [d EXCEPT !.data = KeepRows(d.data, mask)]

Returned(v) == [k |-> "returned", v |-> v]
Raised(exc) == [k |-> "raised", exc |-> exc]

(***************************************************************************)
(* Cell conversions                                                        *)
(***************************************************************************)
IsDigit(c) == \E i \in 1..Len(Digits) : Digits[i] = c
DigitValue(c) == (CHOOSE i \in 1..Len(Digits) : Digits[i] = c) - 1

RECURSIVE CharsToInt(_)
CharsToInt(s) ==
    IF s = << >> THEN 0
    ELSE 10 * CharsToInt(SubSeq(s, 1, Len(s) - 1)) + DigitValue(s[Len(s)])

\* pd.to_numeric(..., errors='coerce') on one cell: a number stays, a text of
\* digits is parsed, anything else becomes NaN
ToNumericCell(c) ==
    IF c.k = "num" \/ c.k = "nan" THEN Returned(c)
    ELSE IF c.k = "str"
         THEN LET s == Strip(c.s)
              IN  IF s # << >> /\ \A i \in 1..Len(s) : IsDigit(s[i])
                  THEN Returned(NumCell(CharsToInt(s)))
                  ELSE Returned(NaN)
         ELSE Returned(NaN)

\* the spellings pd.to_datetime reads as NaT
NatStrings == { << >>, << "N", "a", "T" >>, << "n", "a", "t" >>, << "N", "a", "N" >>, << "n", "a", "n" >> }
IsoPrefix == << "2", "0", "2", "4", "-", "0", "1", "-", "0" >>

\* pd.to_datetime on one cell (errors='raise', the default).  The texts of the
\* model are ISO days of January 2024, NaT spellings, or text that is no date.
ToDatetimeCell(c) ==
    IF c.k = "date" \/ c.k = "nan" THEN Returned(c)
    ELSE IF c.k = "str" /\ c.s \in NatStrings THEN Returned(NaN)
    ELSE IF /\ c.k = "str"
            /\ Len(c.s) = Len(IsoPrefix) + 1
            /\ SubSeq(c.s, 1, Len(IsoPrefix)) = IsoPrefix
            /\ IsDigit(c.s[Len(c.s)])
            /\ c.s[Len(c.s)] # "0"
         THEN Returned(DateCell(DigitValue(c.s[Len(c.s)])))
    ELSE Raised("DateParseError")

(***************************************************************************)
(* load_and_process_data                                                   *)
(***************************************************************************)
MissingColumnMessage ==
    "Error: 'Post title' column not found. Please ensure your Excel file has this column."
LoadErrorMessage == "Error loading data"

\* pd.read_excel(uploaded_file, sheet_name='All posts', header=1)
ReadExcel(f) ==
    IF f.readable THEN Returned([columns |-> f.header, data |-> f.cells])
    ELSE Raised("read_excel")

\* pd.to_datetime or pd.to_numeric of a column, cell by cell; the first cell that raises ends the conversion
ConvertColumn(d, name, to) ==
    LET Conv(c) == IF to = "datetime" THEN ToDatetimeCell(c) ELSE ToNumericCell(c)
    IN  IF ~HasCol(d, name) THEN Returned(d)
        ELSE IF DupCol(d, name) THEN Raised("TypeError")
        ELSE LET cells == Column(d, name)
             IN  IF \E r \in 1..Len(cells) : Conv(cells[r]).k = "raised"
                 THEN Raised(Conv(cells[CHOOSE r \in 1..Len(cells) :
                                           Conv(cells[r]).k = "raised"]).exc)
                 ELSE Returned(SetColumn(d, name, [r \in 1..Len(cells) |-> Conv(cells[r]).v]))

\* the conversion of the next column, unless an earlier conversion raised
Then(c, name, to) == IF c.k = "raised" THEN c ELSE ConvertColumn(c.v, name, to)

\* df.columns = [str(col).lower().strip() for col in df.columns]
NormalizeColumns(d) ==
    [d EXCEPT !.columns = [i \in 1..Len(d.columns) |-> NormalizeName(d.columns[i])]]

\* df['post title (first sentence)'] = df['post title'].apply(extract_first_sentence)
AddFirstSentence(d) ==
    SetColumn(d, FIRST_SENTENCE,
        [r \in 1..Len(d.data) |->
            StrCell(extract_first_sentence(Column(d, POST_TITLE)[r]))])

\* "return df", unless a conversion raised
ReturnTable(c) ==
    IF c.k = "raised" THEN c ELSE [k |-> "returned", v |-> c.v, errors |-> << >>]

\* the try block after the column names are normalized
ProcessTable(d) ==
    IF ~HasCol(d, POST_TITLE)
    THEN [k |-> "returned", v |-> None, errors |-> << MissingColumnMessage >>]
    ELSE IF DupCol(d, POST_TITLE) THEN Raised("ValueError")
    ELSE ReturnTable(
             Then(Then(Then(ConvertColumn(AddFirstSentence(d), CREATED_DATE, "datetime"),
                            ENGAGEMENT_RATE, "numeric"),
                       CTR, "numeric"),
                  IMPRESSIONS, "numeric"))

\* the try block after read_excel has returned or raised
AfterRead(read) ==
    IF read.k = "raised" THEN read ELSE ProcessTable(NormalizeColumns(read.v))

\* the body of the try block: [k |-> "returned", v |-> table or None, errors] or
\* [k |-> "raised", exc]
LoadBody(f) == AfterRead(ReadExcel(f))

\* a mutation of load_and_process_data: no except clause
LoadUncaught(f) ==
    LET body == LoadBody(f)
    IN  IF body.k = "raised"
        THEN [k |-> "raised", exc |-> body.exc, v |-> None, errors |-> << >>]
        ELSE body

\* try: ... except Exception as e: st.error(...); return None
load_and_process_data(f) ==
    LET body == LoadBody(f)
    IN  IF body.k = "raised"
        THEN [k |-> "returned", v |-> None, errors |-> << LoadErrorMessage >>]
        ELSE body

(***************************************************************************)
(* Series reductions.  A rational is [k |-> "rat", num, den] with den > 0.  *)
(***************************************************************************)
Rat(n, d) == [k |-> "rat", num |-> n, den |-> d]

\* Series.dropna()
NonMissing(cells) == SelectSeq(cells, LAMBDA c : ~IsNa(c))

RECURSIVE SumCells(_)
SumCells(cells) == IF cells = << >> THEN 0 ELSE Head(cells).n + SumCells(Tail(cells))

\* Series.sum(): missing values are skipped, and the sum of nothing is 0
SeriesSum(cells) == SumCells(NonMissing(cells))

\* a mutation of RateMean: a missing value counts as a zero term (fillna(0))
RateMeanZeroFill(cells) ==
    IF cells = << >> THEN NaN
    ELSE Rat(SumCells(NonMissing(cells)), 100 * Len(cells))

\* Series.mean() of a rate column, whose cells count hundredths: missing values
\* are skipped, and the mean of nothing is NaN
RateMean(cells) ==
    LET xs == NonMissing(cells)
    IN  IF xs = << >> THEN NaN ELSE Rat(SumCells(xs), 100 * Len(xs))

\* x * 100
Times100(x) == IF IsNa(x) THEN NaN ELSE Rat(100 * x.num, x.den)

\* the sequence of the elements of a finite set of integers, ascending
RECURSIVE SortAsc(_)
SortAsc(S) ==
    IF S = {} THEN << >>
    ELSE LET m == CHOOSE x \in S : \A y \in S : x <= y
         IN  << m >> \o SortAsc(S \ {m})

(***************************************************************************)
(* create_summary_metrics                                                  *)
(***************************************************************************)
create_summary_metrics(d) ==
    [ total_posts |-> Len(d.data),
      avg_engagement |->
          IF HasCol(d, ENGAGEMENT_RATE)
          THEN Times100(RateMean(Column(d, ENGAGEMENT_RATE))) ELSE Rat(0, 1),
      avg_ctr |->
          IF HasCol(d, CTR) THEN Times100(RateMean(Column(d, CTR))) ELSE Rat(0, 1),
      total_impressions |->
          IF HasCol(d, IMPRESSIONS) THEN SeriesSum(Column(d, IMPRESSIONS)) ELSE 0,
      table |-> d ]

(***************************************************************************)
(* Chart builders.  Each returns Returned(None), Returned(figure) or       *)
(* Raised(exception).                                                      *)
(***************************************************************************)
\* df.groupby(df['created date'].dt.date).agg({...}): the three aggregated
\* columns must exist; rows without a date belong to no group
create_engagement_trend_chart(d) ==
    IF ~HasCol(d, CREATED_DATE) THEN Returned(None)
    ELSE IF ~(HasCol(d, ENGAGEMENT_RATE) /\ HasCol(d, IMPRESSIONS) /\ HasCol(d, CTR))
         THEN Raised("KeyError")
    ELSE LET dates == Column(d, CREATED_DATE)
             rates == Column(d, ENGAGEMENT_RATE)
             days == SortAsc({ dates[r].n : r \in { q \in 1..Len(dates) : ~IsNa(dates[q]) } })
             OnDay(day) == { r \in 1..Len(dates) : ~IsNa(dates[r]) /\ dates[r].n = day }
             RatesOn(day) ==
                 KeepRows(rates, [r \in 1..Len(rates) |-> r \in OnDay(day)])
         IN  Returned([ kind |-> "trend",
                        x |-> days,
                        y |-> [i \in 1..Len(days) |-> Times100(RateMean(RatesOn(days[i])))] ])

\* px.scatter(df, x='impressions', y=..., hover_data=[..., 'click through rate (ctr)'])
create_scatter_plot(d) ==
    IF ~HasCol(d, IMPRESSIONS) \/ ~HasCol(d, ENGAGEMENT_RATE) THEN Returned(None)
    ELSE IF ~HasCol(d, CTR) THEN Raised("ValueError")
    ELSE LET rates == Column(d, ENGAGEMENT_RATE)
         IN  Returned([ kind |-> "scatter",
                        x |-> Column(d, IMPRESSIONS),
                        y |-> [r \in 1..Len(rates) |->
                                  IF IsNa(rates[r]) THEN NaN
                                  ELSE Times100(Rat(rates[r].n, 100))] ])

DefaultTopN == 10

\* the row numbers of S, the largest value first, equal values in row order
RECURSIVE SortDesc(_, _)
SortDesc(S, cells) ==
    IF S = {} THEN << >>
    ELSE LET m == CHOOSE x \in S :
                      \A y \in S : \/ cells[x].n > cells[y].n
                                   \/ (cells[x].n = cells[y].n /\ x <= y)
         IN  << m >> \o SortDesc(S \ {m}, cells)

Take(s, n) == SubSeq(s, 1, IF n < Len(s) THEN n ELSE Len(s))

\* df.nlargest(n, metric): the row numbers selected, the largest value first.
\* Whether rows with a missing value fill the places left when n exceeds the
\* number of values depends on the pandas release: nan_rows is "kept" (they
\* follow the values) or "dropped".
NLargest(cells, n, nan_rows) ==
    IF n <= 0 THEN << >>
    ELSE LET valid == { r \in 1..Len(cells) : ~IsNa(cells[r]) }
             missing == SortAsc({ r \in 1..Len(cells) : IsNa(cells[r]) })
         IN  IF nan_rows = "kept"
             THEN Take(SortDesc(valid, cells) \o missing, n)
             ELSE Take(SortDesc(valid, cells), n)

\* the value a bar contributes to its category's total
BarValue(x) == IF IsNa(x) THEN 0 ELSE x.n

\* yaxis categoryorder 'total ascending': the categories (title summaries) in
\* the order of the axis, by the total of their bars, equal totals in data order
RECURSIVE CategoryOrder(_, _)
CategoryOrder(rows, S) ==
    IF S = {} THEN << >>
    ELSE LET Total(i) ==
                 SumCells(SelectSeq(
                     [j \in 1..Len(rows) |->
                         IF rows[j].title = rows[i].title
                         THEN NumCell(BarValue(rows[j].metric)) ELSE NaN],
                     LAMBDA c : ~IsNa(c)))
             m == CHOOSE x \in S :
                      \A y \in S : \/ Total(x) < Total(y)
                                   \/ (Total(x) = Total(y) /\ x <= y)
         IN  << [title |-> rows[m].title, total |-> Total(m)] >>
                 \o CategoryOrder(rows, S \ {m})

create_top_posts_chart(d, metric, top_n, nan_rows) ==
    IF ~HasCol(d, metric) THEN Returned(None)
    ELSE LET picked == NLargest(Column(d, metric), top_n, nan_rows)
         IN  IF ~HasCol(d, IMPRESSIONS) THEN Raised("KeyError")
             ELSE LET rows == [i \in 1..Len(picked) |->
                                  [ row |-> picked[i],
                                    title |-> Column(d, FIRST_SENTENCE)[picked[i]],
                                    metric |-> Column(d, metric)[picked[i]],
                                    impressions |-> Column(d, IMPRESSIONS)[picked[i]] ]]
                      firsts == { i \in 1..Len(rows) :
                                    \A j \in 1..Len(rows) :
                                        rows[j].title = rows[i].title => i <= j }
                  IN  Returned([ kind |-> "bar",
                                 rows |-> rows,
                                 axis |-> CategoryOrder(rows, firsts) ])

(***************************************************************************)
(* Uploaded files: a header of raw column names over at most MaxRows rows   *)
(* drawn from a catalogue.                                                 *)
(***************************************************************************)
MaxRows == 3

RawTitleHeaders ==
    { << >>,
      << << "P", "o", "s", "t", " ", "t", "i", "t", "l", "e" >> >>,
      << << " ", "P", "O", "S", "T", " ", "T", "I", "T", "L", "E", " " >> >>,
      << << "P", "o", "s", "t", " ", "t", "i", "t", "l", "e" >>, << "p", "o", "s", "t", " ", "t", "i", "t", "l", "e", " " >> >> }

OptionalHeaders ==
    << [raw |-> << "C", "r", "e", "a", "t", "e", "d", " ", "d", "a", "t", "e" >>, key |-> "date"],
       [raw |-> << "E", "n", "g", "a", "g", "e", "m", "e", "n", "t", " ", "r", "a", "t", "e" >>, key |-> "er"],
       [raw |-> << "C", "l", "i", "c", "k", " ", "t", "h", "r", "o", "u", "g", "h", " ", "r", "a", "t", "e", " ", "(", "C", "T", "R", ")" >>, key |-> "ctr"],
       [raw |-> << "I", "m", "p", "r", "e", "s", "s", "i", "o", "n", "s" >>, key |-> "imp"],
       [raw |-> << "P", "o", "s", "t", " ", "t", "y", "p", "e" >>, key |-> "ptype"] >>

RowCatalogue ==
    { [ title |-> StrCell(<< "H", "e", "l", "l", "o", ".", " ", "W", "o", "r", "l", "d", "." >>), date |-> DateCell(1), er |-> NumCell(10),
        ctr |-> NumCell(1), imp |-> NumCell(100), ptype |-> StrCell(<< "O", "r", "g", "a", "n", "i", "c" >>) ],
      [ title |-> StrCell(<< "S", "h", "o", "r", "t" >>), date |-> StrCell(<< "2", "0", "2", "4", "-", "0", "1", "-", "0", "2" >>), er |-> NumCell(30),
        ctr |-> StrCell(<< "2" >>), imp |-> StrCell(<< "2", "0", "0" >>), ptype |-> StrCell(<< "S", "p", "o", "n", "s", "o", "r", "e", "d" >>) ],
      [ title |-> NaN, date |-> NaN, er |-> NaN,
        ctr |-> NaN, imp |-> NaN, ptype |-> NaN ],
      [ title |-> StrCell(<< "P", "r", "o", "d", "u", "c", "t", " ", "L", "a", "u", "n", "c", "h", " ", "D", "a", "y" >>), date |-> StrCell(<< "t", "b", "d" >>), er |-> StrCell(<< "t", "b", "d" >>),
        ctr |-> StrCell(<< "t", "b", "d" >>), imp |-> StrCell(<< "t", "b", "d" >>), ptype |-> StrCell(<< "O", "r", "g", "a", "n", "i", "c" >>) ] }

\* the sheet with the given title columns and optional columns over the rows
MakeFile(title_header, optional, rows) ==
    LET opts == SelectSeq(OptionalHeaders, LAMBDA h : h.key \in optional)
    IN  [ readable |-> TRUE,
          header |-> title_header \o [i \in 1..Len(opts) |-> opts[i].raw],
          cells |-> [r \in 1..Len(rows) |->
                        [i \in 1..Len(title_header) |-> rows[r].title]
                            \o [i \in 1..Len(opts) |-> rows[r][opts[i].key]]] ]

UnreadableFile == [readable |-> FALSE, header |-> << >>, cells |-> << >>]

RowSeqs(n) == UNION { [1..m -> RowCatalogue] : m \in 0..n }

FilesUpTo(n) ==
    { UnreadableFile } \cup
    { MakeFile(h, o, rs) :
        h \in RawTitleHeaders,
        o \in SUBSET { "date", "er", "ctr", "imp", "ptype" },
        rs \in RowSeqs(n) }

Files == FilesUpTo(MaxRows)

(***************************************************************************)
(* The loader, the summarizer and the chart builders applied to every file: *)
(* the file is loaded, and one of the functions is applied to the table.    *)
(***************************************************************************)
TopNs == { 1, 2, DefaultTopN }
Metrics == { ENGAGEMENT_RATE, CTR }
NanRows == { "kept", "dropped" }

InitPipeline ==
    /\ uploaded_file \in Files
    /\ df = None
    /\ errors = << >>
    /\ call = [fn |-> "none"]
    /\ result = None
    /\ text = NaN
    /\ summary = None
    /\ widgets = None
    /\ view = None
    /\ page = None

Load ==
    /\ call.fn = "none"
    /\ LET loaded == load_and_process_data(uploaded_file)
       IN  /\ call' = [fn |-> "load"]
           /\ result' = IF loaded.k = "raised" THEN Raised(loaded.exc) ELSE Returned(None)
           /\ df' = loaded.v
           /\ errors' = loaded.errors
    /\ UNCHANGED << text, summary, uploaded_file, widgets, view, page >>

Summarize ==
    /\ call.fn = "load"
    /\ df # None
    /\ call' = [fn |-> "metrics"]
    /\ result' = Returned(create_summary_metrics(df))
    /\ df' = create_summary_metrics(df).table
    /\ UNCHANGED << text, summary, uploaded_file, errors, widgets, view, page >>

Trend ==
    /\ call.fn = "load"
    /\ df # None
    /\ call' = [fn |-> "trend"]
    /\ result' = create_engagement_trend_chart(df)
    /\ UNCHANGED << text, summary, uploaded_file, df, errors, widgets, view, page >>

Scatter ==
    /\ call.fn = "load"
    /\ df # None
    /\ call' = [fn |-> "scatter"]
    /\ result' = create_scatter_plot(df)
    /\ UNCHANGED << text, summary, uploaded_file, df, errors, widgets, view, page >>

TopPosts ==
    /\ call.fn = "load"
    /\ df # None
    /\ \E metric \in Metrics, top_n \in TopNs, nan_rows \in NanRows :
        /\ call' = [fn |-> "top", metric |-> metric, top_n |-> top_n, nan_rows |-> nan_rows]
        /\ result' = create_top_posts_chart(df, metric, top_n, nan_rows)
    /\ UNCHANGED << text, summary, uploaded_file, df, errors, widgets, view, page >>

NextPipeline == Load \/ Summarize \/ Trend \/ Scatter \/ TopPosts

SpecPipeline == InitPipeline /\ [][NextPipeline]_vars

\* a header name that spells 'post title' up to letter case and surrounding blanks
SpellsTitle(name) == Strip(Lower(name)) = POST_TITLE
TitleColumns(f) == { i \in 1..Len(f.header) : SpellsTitle(f.header[i]) }

\* the column of the file whose header is the raw name, if any
RawColumns(f, raw) == { i \in 1..Len(f.header) : f.header[i] = raw }

RECURSIVE SetSum(_, _)
SetSum(S, cells) ==
    IF S = {} THEN 0
    ELSE LET r == CHOOSE x \in S : TRUE IN cells[r].n + SetSum(S \ {r}, cells)

Present(cells) == { r \in 1..Len(cells) : ~IsNa(cells[r]) }

(* C1: load_and_process_data never raises, and ends either with a table that
   has the 'post title' and 'post title (first sentence)' columns and no error
   message, or with no table and at least one error message; without a
   'post title' column in the normalized header there is no table. *)
C1_LoadOutcome ==
    call.fn # "none" =>
        /\ (call.fn = "load" => result.k = "returned")
        /\ \/ (df # None /\ HasCol(df, POST_TITLE) /\ HasCol(df, FIRST_SENTENCE)
                  /\ errors = << >>)
           \/ (df = None /\ errors # << >>)
        /\ (TitleColumns(uploaded_file) = {} => df = None)

C1_Witness ==
    /\ call.fn = "load"
    /\ uploaded_file.readable
    /\ TitleColumns(uploaded_file) # {}
    /\ df = None
    /\ errors = << LoadErrorMessage >>

(* C2: an unparseable cell of a typed column becomes a missing value and the
   load still succeeds: a readable file with one 'post title' column always
   yields a table with all its rows, in which such a cell is missing. *)
C2_UnparseableBecomesMissing ==
    (call.fn # "none" /\ uploaded_file.readable
        /\ Cardinality(TitleColumns(uploaded_file)) = 1) =>
        /\ df # None
        /\ Len(df.data) = Len(uploaded_file.cells)
        /\ \A h \in 1..4 :
            \A i \in RawColumns(uploaded_file, OptionalHeaders[h].raw) :
                \A r \in 1..Len(uploaded_file.cells) :
                    uploaded_file.cells[r][i] = StrCell(<< "t", "b", "d" >>) => IsNa(df.data[r][i])

(* C3: on every loaded table the summarizer and the three chart builders
   return without raising; a builder returns None exactly when a column it
   requires is absent: created date for the trend, the metric for the
   ranking, impressions and engagement rate for the correlation. *)
C3_BuildersNeverRaise ==
    call.fn \in { "metrics", "trend", "scatter", "top" } =>
        /\ result.k = "returned"
        /\ call.fn = "trend" => (result.v = None <=> ~HasCol(df, CREATED_DATE))
        /\ call.fn = "top" => (result.v = None <=> ~HasCol(df, call.metric))
        /\ call.fn = "scatter" =>
               (result.v = None <=>
                   ~(HasCol(df, IMPRESSIONS) /\ HasCol(df, ENGAGEMENT_RATE)))

\* the average of a rate column, in percent, is the sum of its values (which
\* count hundredths) over their number
IsPercentMean(avg, d, name) ==
    IF ~HasCol(d, name) THEN avg = Rat(0, 1)
    ELSE LET cells == Column(d, name)
             S == Present(cells)
         IN  S # {} => (~IsNa(avg) /\ avg.num * Cardinality(S) = avg.den * SetSum(S, cells))

(* C4: create_summary_metrics gives total posts = the number of rows, total
   impressions = the sum of the non-missing impressions (0 when the column is
   absent or all missing), each average rate = 100 times the mean over the
   non-missing values (0 when the column is absent; rates 0.1, missing, 0.3
   give 20%), and leaves the table as it was loaded. *)
C4_SummaryMetrics ==
    call.fn = "metrics" =>
        LET m == result.v
        IN  /\ df = load_and_process_data(uploaded_file).v
            /\ m.total_posts = Len(df.data)
            /\ m.total_impressions =
                   IF HasCol(df, IMPRESSIONS)
                   THEN SetSum(Present(Column(df, IMPRESSIONS)), Column(df, IMPRESSIONS))
                   ELSE 0
            /\ IsPercentMean(m.avg_engagement, df, ENGAGEMENT_RATE)
            /\ IsPercentMean(m.avg_ctr, df, CTR)
            /\ (HasCol(df, ENGAGEMENT_RATE)
                   /\ Column(df, ENGAGEMENT_RATE) = << NumCell(10), NaN, NumCell(30) >>)
                   => m.avg_engagement.num = 20 * m.avg_engagement.den

C4_Witness ==
    /\ call.fn = "metrics"
    /\ HasCol(df, ENGAGEMENT_RATE)
    /\ Column(df, ENGAGEMENT_RATE) = << NumCell(10), NaN, NumCell(30) >>
    /\ HasCol(df, IMPRESSIONS)
    /\ result.v.total_impressions = 300

(* C7: for a table that has the metric column and N >= 1 the ranking builder
   selects min(N, number of rows with a metric value) rows, none smaller than
   an unselected value, drawn ascending by the metric, each with its title
   summary and impressions.  Stated for the pandas that drops rows without a
   value. *)
C7_TopPostsSelection ==
    (call.fn = "top" /\ call.nan_rows = "dropped" /\ HasCol(df, call.metric)) =>
        /\ result.k = "returned"
        /\ result.v # None
        /\ LET cells == Column(df, call.metric)
               rows == result.v.rows
               picked == { rows[i].row : i \in 1..Len(rows) }
               axis == result.v.axis
           IN  /\ Len(rows) = IF call.top_n < Cardinality(Present(cells))
                              THEN call.top_n ELSE Cardinality(Present(cells))
               /\ Cardinality(picked) = Len(rows)
               /\ picked \subseteq Present(cells)
               /\ \A i \in picked : \A j \in Present(cells) \ picked :
                      cells[i].n >= cells[j].n
               /\ \A a \in 1..Len(axis) : \A b \in 1..Len(axis) :
                      a < b => axis[a].total <= axis[b].total
               /\ \A i \in 1..Len(rows) :
                      /\ rows[i].title = Column(df, FIRST_SENTENCE)[rows[i].row]
                      /\ rows[i].impressions = Column(df, IMPRESSIONS)[rows[i].row]

(***************************************************************************)
(* Series.str.contains(search_term, case=False, na=False): regex=True is   *)
(* the default, so the term is compiled as a regular expression.  The      *)
(* terms of the model are made of letters, blanks and the characters       *)
(* . * ? ( , so a "(" is never closed.                                     *)
(***************************************************************************)
Quantifiers == { "*", "?" }

\* re.compile(t) from position i on: Returned(items), an item being an atom
\* with how often it may repeat, or Raised("re.error")
RECURSIVE CompileFrom(_, _)
CompileFrom(t, i) ==
    IF i > Len(t) THEN Returned(<< >>)
    ELSE IF t[i] = "(" THEN Raised("re.error")
    ELSE IF t[i] \in Quantifiers THEN Raised("re.error")
    ELSE LET q == IF i + 1 <= Len(t) /\ t[i + 1] = "*" THEN "star"
                  ELSE IF i + 1 <= Len(t) /\ t[i + 1] = "?" THEN "opt"
                  ELSE "one"
             after == IF q = "one" THEN i + 1 ELSE i + 2
             \* a "?" after a quantifier makes it lazy
             next == IF q # "one" /\ after <= Len(t) /\ t[after] = "?"
                     THEN after + 1 ELSE after
             rest == CompileFrom(t, next)
         IN  IF rest.k = "raised" THEN rest
             ELSE Returned(<< [atom |-> t[i], q |-> q] >> \o rest.v)

\* one pattern character against one character of the text, letter case ignored
AtomMatches(a, c) == IF a = "." THEN c # "\n" ELSE LowerChar(a) = LowerChar(c)

\* the items from the k-th on match the text from position p on
RECURSIVE MatchAt(_, _, _, _)
MatchAt(items, k, s, p) ==
    IF k > Len(items) THEN TRUE
    ELSE LET it == items[k]
         IN  IF it.q = "one"
             THEN /\ p <= Len(s)
                  /\ AtomMatches(it.atom, s[p])
                  /\ MatchAt(items, k + 1, s, p + 1)
             ELSE IF it.q = "opt"
             THEN \/ MatchAt(items, k + 1, s, p)
                  \/ /\ p <= Len(s)
                     /\ AtomMatches(it.atom, s[p])
                     /\ MatchAt(items, k + 1, s, p + 1)
             ELSE \E m \in 0..(Len(s) - p + 1) :
                     /\ \A j \in p..(p + m - 1) : AtomMatches(it.atom, s[j])
                     /\ MatchAt(items, k + 1, s, p + m)

\* pattern.search(s) is not None
RegexSearch(items, s) == \E p \in 1..(Len(s) + 1) : MatchAt(items, 1, s, p)

\* the mask of str.contains, or the error of compiling the term
StrContains(cells, term) ==
    LET pat == CompileFrom(term, 1)
    IN  IF pat.k = "raised" THEN pat
        ELSE Returned([r \in 1..Len(cells) |->
                          ~IsNa(cells[r]) /\ RegexSearch(pat.v, cells[r].s)])

(***************************************************************************)
(* Display formatting and export                                           *)
(***************************************************************************)
\* the column holds a missing value, which makes it a float column
FloatColumn(cells) == \E r \in 1..Len(cells) : IsNa(cells[r])

\* f"{x:,}" of a non-negative integer
RECURSIVE Grouped(_)
Grouped(n) ==
    IF n < 1000 THEN IntToChars(n)
    ELSE Grouped(n \div 1000) \o << "," >>
            \o << Digits[((n % 1000) \div 100) + 1], Digits[((n % 100) \div 10) + 1],
                  Digits[(n % 10) + 1] >>

\* lambda x: f"{x:,}" if pd.notna(x) else "0"
FormatImpressions(c, float) ==
    IF IsNa(c) THEN StrCell(<< "0" >>)
    ELSE StrCell(Grouped(c.n) \o (IF float THEN << ".", "0" >> ELSE << >>))

\* (x * 100).round(2).astype(str) + '%' of a rate cell, which counts hundredths
FormatPercent(c) ==
    IF IsNa(c) THEN StrCell(<< "n", "a", "n", "%" >>)
    ELSE StrCell(IntToChars(c.n) \o << ".", "0", "%" >>)

\* the display_df of main before the search: df[available_columns].copy() with
\* the rate columns and the impressions column formatted
DisplayTable(d) ==
    LET display_columns ==
            SelectSeq(<< FIRST_SENTENCE, IMPRESSIONS, ENGAGEMENT_RATE, CTR >>,
                      LAMBDA c : HasCol(d, c))
        with_date ==
            IF HasCol(d, CREATED_DATE)
            THEN << Head(display_columns) >> \o << CREATED_DATE >> \o Tail(display_columns)
            ELSE display_columns
        available_columns ==
            IF HasCol(d, POST_TYPE) THEN Append(with_date, POST_TYPE) ELSE with_date
        float == HasCol(d, IMPRESSIONS) /\ FloatColumn(Column(d, IMPRESSIONS))
        Shown(name, c) ==
            IF name = ENGAGEMENT_RATE \/ name = CTR THEN FormatPercent(c)
            ELSE IF name = IMPRESSIONS THEN FormatImpressions(c, float)
            ELSE c
    IN  [ columns |-> available_columns,
          data |-> [r \in 1..Len(d.data) |->
                       [i \in 1..Len(available_columns) |->
                           Shown(available_columns[i],
                                 d.data[r][ColIndex(d, available_columns[i])])]] ]

\* one cell as to_csv writes it; a number is written in the units of the model
CsvText(c) ==
    IF IsNa(c) THEN << >>
    ELSE IF c.k = "str" THEN c.s
    ELSE IF c.k = "date" THEN IsoPrefix \o << Digits[c.n + 1] >>
    ELSE IntToChars(c.n)

\* df.to_csv(index=False)
ToCsv(d) ==
    [ header |-> d.columns,
      lines |-> [r \in 1..Len(d.data) |->
                    [i \in 1..Len(d.columns) |-> CsvText(d.data[r][i])]] ]

(***************************************************************************)
(* main(): one render pass.  Every interaction of the user reruns main()   *)
(* from the top: the file is loaded (df), the sidebar filters narrow the    *)
(* table (view), and the page is drawn from it (page).  Two things are left *)
(* to the libraries: whether nlargest keeps the rows without a value, and   *)
(* what st.date_input does when the table holds no date at all, its bounds  *)
(* being NaT: it raises, or the filter that follows keeps no row, or no     *)
(* filter is applied.                                                      *)
(***************************************************************************)
ALL == StrCell(<< "A", "l", "l" >>)

FullRange == [k |-> "full", lo |-> 0, hi |-> 0]
NoBounds == [k |-> "none", lo |-> 0, hi |-> 0]
DefaultWidgets == [post_type |-> ALL, date_range |-> FullRange, search_term |-> << >>]

\* nothing is filtered yet: no file, or no table
NoView ==
    [ raised |-> "", table |-> None, post_types |-> << >>, selected |-> ALL,
      bounds |-> NoBounds, range |-> FullRange ]

BlankPage ==
    [ stage |-> "upload", loaded |-> FALSE, raised |-> "", metrics |-> None,
      trend |-> FALSE, scatter |-> FALSE, top_engagement |-> FALSE, top_ctr |-> FALSE,
      display |-> None, csv |-> None, insights |-> << >> ]

\* list(df['post type'].unique()): the values in order of first appearance
RECURSIVE Unique(_)
Unique(cells) ==
    IF cells = << >> THEN << >>
    ELSE LET rest == Unique(SubSeq(cells, 1, Len(cells) - 1))
             last == cells[Len(cells)]
         IN  IF \E i \in 1..Len(rest) : rest[i] = last THEN rest ELSE Append(rest, last)

\* "Post type filter": the options offered, the selection in force and the rows kept
PostTypeFilter(d, w) ==
    IF ~HasCol(d, POST_TYPE) THEN [NoView EXCEPT !.table = d]
    ELSE LET types == Column(d, POST_TYPE)
             post_types == << ALL >> \o Unique(types)
             \* a selection the selector does not offer is replaced by the default
             selected ==
                 IF \E i \in 1..Len(post_types) : post_types[i] = w.post_type
                 THEN w.post_type ELSE ALL
         IN  [NoView EXCEPT
                !.post_types = post_types,
                !.selected = selected,
                !.table = IF selected # ALL
                          THEN FilterRows(d, [r \in 1..Len(types) |->
                                                 ~IsNa(types[r]) /\ types[r] = selected])
                          ELSE d]

\* "Date range filter" on the view v left by the post type filter
DateRangeFilter(v, w, nat_picker) ==
    IF ~HasCol(v.table, CREATED_DATE) THEN v
    ELSE
    LET dates == Column(v.table, CREATED_DATE)
        days == { dates[r].n : r \in { q \in 1..Len(dates) : ~IsNa(dates[q]) } }
    IN  IF days = {}
        THEN LET v0 == [v EXCEPT !.bounds = [k |-> "nat", lo |-> 0, hi |-> 0]]
             IN  IF nat_picker = "raises"
                 THEN [v0 EXCEPT !.raised = "StreamlitAPIException"]
                 ELSE IF nat_picker = "empty"
                 THEN [v0 EXCEPT !.table =
                          FilterRows(v.table, [r \in 1..Len(dates) |-> FALSE])]
                 ELSE v0
        ELSE
        LET lo == CHOOSE x \in days : \A y \in days : x <= y
            hi == CHOOSE x \in days : \A y \in days : x >= y
            asked == w.date_range
            \* a range outside the bounds of this pass is replaced by the default
            date_range ==
                IF asked.k = "single" /\ lo <= asked.lo /\ asked.lo <= hi THEN asked
                ELSE IF asked.k = "range" /\ lo <= asked.lo /\ asked.lo <= asked.hi
                        /\ asked.hi <= hi
                THEN asked
                ELSE [k |-> "range", lo |-> lo, hi |-> hi]
        IN  [v EXCEPT
               !.bounds = [k |-> "days", lo |-> lo, hi |-> hi],
               !.range = date_range,
               !.table = IF date_range.k = "range"
                         THEN FilterRows(v.table,
                                  [r \in 1..Len(dates) |->
                                      /\ ~IsNa(dates[r])
                                      /\ dates[r].n >= date_range.lo
                                      /\ dates[r].n <= date_range.hi])
                         ELSE v.table]

\* "Sidebar filters" of main on the loaded table d
SidebarFilters(d, w, nat_picker) ==
    IF d = None THEN NoView ELSE DateRangeFilter(PostTypeFilter(d, w), w, nat_picker)

\* what st.date_input may do on the table d: "shown" unless its bounds are NaT
DateInput(d, w) ==
    IF d = None THEN { "shown" }
    ELSE LET t == PostTypeFilter(d, w).table
         IN  IF HasCol(t, CREATED_DATE)
                /\ \A r \in 1..Len(t.data) : IsNa(Column(t, CREATED_DATE)[r])
             THEN { "raises", "empty", "unfiltered" }
             ELSE { "shown" }

\* "Quick Insights": Returned(the info boxes) or Raised
Insights(d) ==
    LET Best(name) ==
            LET cells == Column(d, name)
                S == { r \in 1..Len(cells) : ~IsNa(cells[r]) }
                r == CHOOSE x \in S :
                        \A y \in S : \/ cells[x].n > cells[y].n
                                     \/ (cells[x].n = cells[y].n /\ x <= y)
            IN  [ about |-> name,
                  title |-> Column(d, FIRST_SENTENCE)[r],
                  value |-> cells[r] ]
        Shows(name) == HasCol(d, name) /\ Len(d.data) > 0
        \* idxmax() of a column without any value, then df.loc[...]
        Fails(name) == Shows(name) /\ \A r \in 1..Len(d.data) : IsNa(Column(d, name)[r])
    IN  IF Fails(ENGAGEMENT_RATE) THEN Raised("KeyError")
        ELSE IF Fails(IMPRESSIONS) THEN Raised("KeyError")
        ELSE Returned((IF Shows(ENGAGEMENT_RATE) THEN << Best(ENGAGEMENT_RATE) >> ELSE << >>)
                      \o (IF Shows(IMPRESSIONS) THEN << Best(IMPRESSIONS) >> ELSE << >>))

\* main() from "Data table" on, p being the page so far
TablePart(p, d, w) ==
    LET mask == StrContains(Column(d, FIRST_SENTENCE), w.search_term)
    IN  IF w.search_term # << >> /\ mask.k = "raised"
        THEN [p EXCEPT !.stage = "search", !.raised = mask.exc]
        ELSE
        LET insights == Insights(d)
            p1 == [p EXCEPT
                     !.display = IF w.search_term # << >>
                                 THEN FilterRows(DisplayTable(d), mask.v)
                                 ELSE DisplayTable(d),
                     !.csv = ToCsv(d),
                     !.stage = "insights"]
        IN  IF insights.k = "raised" THEN [p1 EXCEPT !.raised = insights.exc]
            ELSE [p1 EXCEPT !.insights = insights.v, !.stage = "done"]

\* "if fig: st.plotly_chart(fig)"
Drawn(chart) == chart.k = "returned" /\ chart.v # None

\* main() from "Charts section" on
ChartsPart(p, d, w, nan_rows) ==
    LET trend == create_engagement_trend_chart(d)
        scatter == create_scatter_plot(d)
        top_engagement == create_top_posts_chart(d, ENGAGEMENT_RATE, DefaultTopN, nan_rows)
        top_ctr == create_top_posts_chart(d, CTR, DefaultTopN, nan_rows)
        p0 == [p EXCEPT !.stage = "charts"]
    IN  IF trend.k = "raised" THEN [p0 EXCEPT !.raised = trend.exc]
        ELSE IF scatter.k = "raised"
        THEN [p0 EXCEPT !.trend = Drawn(trend), !.raised = scatter.exc]
        ELSE IF top_engagement.k = "raised"
        THEN [p0 EXCEPT !.trend = Drawn(trend), !.scatter = Drawn(scatter),
                        !.raised = top_engagement.exc]
        ELSE IF top_ctr.k = "raised"
        THEN [p0 EXCEPT !.trend = Drawn(trend), !.scatter = Drawn(scatter),
                        !.top_engagement = Drawn(top_engagement),
                        !.raised = top_ctr.exc]
        ELSE TablePart([p0 EXCEPT !.trend = Drawn(trend), !.scatter = Drawn(scatter),
                                  !.top_engagement = Drawn(top_engagement),
                                  !.top_ctr = Drawn(top_ctr)], d, w)

\* what main() draws: f is the uploaded file, d the loaded table, v the view
Render(f, d, v, w, nan_rows) ==
    IF f = None THEN BlankPage
    ELSE IF d = None THEN [BlankPage EXCEPT !.stage = "load"]
    ELSE LET p == [BlankPage EXCEPT !.loaded = TRUE,
                                    !.metrics = create_summary_metrics(d),
                                    !.stage = "date_input"]
         IN  IF v.raised # "" THEN [p EXCEPT !.raised = v.raised]
             ELSE ChartsPart(p, v.table, w, nan_rows)

(***************************************************************************)
(* The session: the user uploads or removes a file and sets the widgets.   *)
(***************************************************************************)
MaxSessionRows == 2

\* the session's files: one that cannot be read, and those with the title column
\* and every optional column, or none, or all but the date or but the post type
SessionColumns ==
    { { "date", "er", "ctr", "imp", "ptype" }, {},
      { "er", "ctr", "imp", "ptype" }, { "date", "er", "ctr", "imp" } }

SessionFiles ==
    { UnreadableFile } \cup
    { MakeFile(<< << "P", "o", "s", "t", " ", "t", "i", "t", "l", "e" >> >>, o, rs) :
        o \in SessionColumns, rs \in RowSeqs(MaxSessionRows) }

Terms == { << >>, << "l", "a", "u", "n", "c", "h" >>, << "z", "z", "z" >>, << "." >>, << "?" >>, << "(" >>, << "*" >> }

Init ==
    /\ uploaded_file = None
    /\ widgets = DefaultWidgets
    /\ df = None
    /\ errors = << >>
    /\ view = NoView
    /\ page = BlankPage
    /\ call = [fn |-> "none"]
    /\ result = None
    /\ text = NaN
    /\ summary = None

\* main(): one run on the file f with the widget values w
main(f, w) ==
    /\ uploaded_file' = f
    /\ widgets' = w
    /\ \E loaded \in { IF f = None THEN [v |-> None, errors |-> << >>]
                        ELSE load_and_process_data(f) } :
        /\ df' = loaded.v
        /\ errors' = loaded.errors
    /\ \E nat_picker \in DateInput(df', w) :
        view' = SidebarFilters(df', w, nat_picker)
    /\ \E nan_rows \in NanRows :
        page' = Render(f, df', view', w, nan_rows)
    /\ UNCHANGED << text, summary, call, result >>

Upload ==
    /\ uploaded_file = None
    /\ \E f \in SessionFiles : main(f, DefaultWidgets)

RemoveFile ==
    /\ uploaded_file # None
    /\ main(None, DefaultWidgets)

SelectPostType ==
    /\ page.loaded
    /\ \E i \in 1..Len(view.post_types) :
           main(uploaded_file, [widgets EXCEPT !.post_type = view.post_types[i]])

SetDateRange ==
    /\ view.bounds.k = "days"
    /\ \E a \in view.bounds.lo..view.bounds.hi, b \in view.bounds.lo..view.bounds.hi,
          kind \in { "single", "range" } :
           /\ a <= b
           /\ kind = "single" => a = b
           /\ main(uploaded_file,
                   [widgets EXCEPT !.date_range = [k |-> kind, lo |-> a, hi |-> b]])

Search ==
    /\ page.stage \in { "search", "insights", "done" }
    /\ \E term \in Terms :
           main(uploaded_file, [widgets EXCEPT !.search_term = term])

Next == Upload \/ RemoveFile \/ SelectPostType \/ SetDateRange \/ Search

Spec == Init /\ [][Next]_vars

\* needle occurs in hay as it is written
ContainsLiteral(hay, needle) ==
    \E i \in 1..(Len(hay) - Len(needle) + 1) :
        SubSeq(hay, i, i + Len(needle) - 1) = needle

\* the pass got as far as the search box
Searched == page.stage \in { "search", "insights", "done" }

(* C8: on a table with rows the search never fails, an empty term keeps every
   row, and a non-empty term keeps exactly the rows whose title summary is not missing and holds
   the term as a literal substring, letter case ignored. *)
C8_LiteralSearch ==
    (Searched /\ Len(view.table.data) > 0) =>
        /\ page.stage # "search"
        /\ LET titles == Column(view.table, FIRST_SENTENCE)
               term == widgets.search_term
           IN  page.display =
                   FilterRows(DisplayTable(view.table),
                       [r \in 1..Len(titles) |->
                           \/ term = << >>
                           \/ /\ ~IsNa(titles[r])
                              /\ ContainsLiteral(Lower(titles[r].s), Lower(term))])

\* a term with a character special to regular expressions has been searched on
\* a table with rows
C8_Witness ==
    /\ Searched
    /\ Len(view.table.data) > 0
    /\ \E i \in 1..Len(widgets.search_term) :
           widgets.search_term[i] \in { ".", "?", "(", "*" }

(* C9: the exported CSV holds exactly the rows that pass the post type
   selection, the date range and the search term, in source order and
   unformatted; it has as many rows as the table shown. *)
C9_ExportIsShownTable ==
    (Searched /\ page.csv # None) =>
        /\ page.csv.header = view.table.columns
        /\ Len(page.csv.lines) = Len(page.display.data)
        /\ \A r \in 1..Len(page.csv.lines) :
               page.csv.lines[r][ColIndex(view.table, FIRST_SENTENCE)]
                   = CsvText(page.display.data[r][1])

\* an export has been offered while a search term was narrowing the table shown
C9_Witness ==
    /\ Searched
    /\ page.csv # None
    /\ widgets.search_term # << >>
    /\ Len(page.display.data) < Len(view.table.data)

\* the table drawn has every column a chart builder reads
ChartColumns ==
    /\ HasCol(view.table, ENGAGEMENT_RATE)
    /\ HasCol(view.table, CTR)
    /\ HasCol(view.table, IMPRESSIONS)

\* every value of the column is missing in the table drawn, which has rows
AllMissing(name) ==
    /\ HasCol(view.table, name)
    /\ Len(view.table.data) > 0
    /\ \A r \in 1..Len(view.table.data) : IsNa(Column(view.table, name)[r])

(* C10: after a successful load a render pass completes without raising; in
   particular when the engagement rate or the impressions column is present
   with every value missing, the term searched being one that compiles and
   the table having the columns the charts read and a date to bound the date
   picker with, if it has a date column at all. *)
C10_RenderCompletes ==
    ( /\ page.loaded
      /\ ChartColumns
      /\ view.bounds.k # "nat"
      /\ page.stage # "search" ) => page.raised = ""

\* a pass over a table whose engagement rate or impressions are all missing
C10_Witness ==
    /\ page.loaded
    /\ ChartColumns
    /\ view.bounds.k # "nat"
    /\ page.stage # "search"
    /\ AllMissing(ENGAGEMENT_RATE) \/ AllMissing(IMPRESSIONS)

(***************************************************************************)
(* The sentence extractor on its own: every text made of at most MaxRuns   *)
(* runs of one character.                                                  *)
(***************************************************************************)
MaxRuns == 4
LongRun == 60

Rep(c, n) == [i \in 1..n |-> c]

RunOptions ==
    { Rep("a", 1), Rep("a", ShortSentence - 1), Rep("a", LongRun),
      << "." >>, << "?" >>, << " " >>, << "\t" >>, << ".", " " >> }

RECURSIVE Concat(_)
Concat(rs) == IF rs = << >> THEN << >> ELSE Head(rs) \o Concat(Tail(rs))

TextInputs ==
    { NaN, NumCell(7) } \cup
    { StrCell(Concat(rs)) : rs \in UNION { [1..n -> RunOptions] : n \in 0..MaxRuns } }

InitRest ==
    /\ uploaded_file = None
    /\ df = None
    /\ errors = << >>
    /\ call = [fn |-> "none"]
    /\ result = None
    /\ widgets = None
    /\ view = None
    /\ page = None

InitExtract ==
    /\ text \in TextInputs
    /\ summary = None
    /\ InitRest

Extract ==
    /\ summary = None
    /\ summary' = StrCell(extract_first_sentence(text))
    /\ UNCHANGED << text, uploaded_file, df, errors, call, result, widgets, view, page >>

NextExtract == Extract

SpecExtract == InitExtract /\ [][NextExtract]_vars

\* the input is text consisting only of whitespace
AllWhitespace(t) == t.k = "str" /\ \A i \in 1..Len(t.s) : t.s[i] \in Whitespace

(* C5: the returned string has at most 100 characters, and when the summary
   built from the first one or two candidates is longer than 100 characters
   the result is its first 97 characters followed by "...". *)
C5_Bounded ==
    summary # None =>
        /\ Len(summary.s) <= 100
        /\ (~IsNa(text) /\ text # StrCell(<< >>) /\ Len(FirstCandidates(text)) > 100) =>
               /\ Len(summary.s) = 100
               /\ SubSeq(summary.s, 1, 97) = SubSeq(FirstCandidates(text), 1, 97)
               /\ SubSeq(summary.s, 98, 100) = << ".", ".", "." >>

C5_Witness ==
    /\ summary # None
    /\ text.k = "str"
    /\ Len(text.s) > 100
    /\ Len(FirstCandidates(text)) > 100
    /\ Len(ReSplit(text.s)) > 1

(* C6 as stated: the result is "" if and only if the input is missing or the
   empty string. *)
C6_EmptyIffMissing ==
    summary # None =>
        (summary.s = << >> <=> (IsNa(text) \/ text = StrCell(<< >>)))

(* C6, with blank text counted as empty: the result is "" if and only if the
   input is missing, the empty string, or text made only of whitespace. *)
C6_EmptyIffBlank ==
    summary # None =>
        (summary.s = << >> <=> (IsNa(text) \/ AllWhitespace(text)))

C6_Witness ==
    /\ summary # None
    /\ summary.s = << >>
    /\ text.k = "str"
    /\ Len(text.s) > 1

====
